---------------------------- MODULE Spec2Model ----------------------------
(***************************************************************************)
(* A small-step model of the Accipit IR interpreter                        *)
(* (src/accipit_interpreter.py).                                           *)
(*                                                                         *)
(* The interpreter is a recursive AST walker over one module-level         *)
(* Environment.  The model keeps the Environment's five fields as          *)
(* variables, the program under interpretation as data, and the Python     *)
(* call stack of BasicBlock.eval activations as the sequence ctl.  One     *)
(* action is one eval() of one AST node (or one declaration of the load    *)
(* phase, or one return from a block activation).                          *)
(*                                                                         *)
(* Python integers have no width.  The model checker's integers are        *)
(* 32-bit, so the "signed machine word" the specification speaks of is     *)
(* scaled to WordBits bits: the interpreter's arithmetic does not depend   *)
(* on the width, only the statements about wrapping do.                    *)
(***************************************************************************)
EXTENDS Integers, Sequences, FiniteSets, TLC

VARIABLES
    prog,        \* the parsed program: the sequence of top-level declarations
    loaded,      \* number of declarations the transformer has constructed
    global_env,  \* Environment.global_env : dict name -> value
    frames,      \* Environment.frames     : list of dicts name -> value
    stack,       \* Environment.stack      : list of cells
    capacity,    \* Environment.capacity
    size,        \* Environment.size
    ctl,         \* live BasicBlock.eval activations, innermost last
    retval,      \* value a finished block activation is returning, or NoRet
    out,         \* values printed by @write, in order
    inp,         \* lines still to be read by @read
    status,      \* "load" | "run" | "exited" | "fatal"
    err,         \* the uncaught exception when status = "fatal"
    exitcode,    \* process exit status when status is "exited" or "fatal"
    scan         \* the parser at work on the text of one identifier

vars == <<prog, loaded, global_env, frames, stack, capacity, size, ctl,
          retval, out, inp, status, err, exitcode, scan>>

-----------------------------------------------------------------------------
(* Bounds of the model *)

\* width, in bits, of the signed machine word the claims speak of
WordBits == 6
\* largest index and largest known dimension used in offset instructions
MaxDim == 2
\* largest argument of the recursive function in the call programs
MaxRec == 2
\* largest number of characters in the text of an identifier
MaxLen == 3

(* Program constants *)

\* initial length of the cell store
InitialCapacity == 1024
\* granule by which allocate extends the cell store
Chunk == 1024

Pow2(n) == 2 ^ n
MinInt == 0 - Pow2(WordBits - 1)
MaxInt == Pow2(WordBits - 1) - 1

-----------------------------------------------------------------------------
(* Runtime values.  Every value is a record with the same three fields so  *)
(* that any two values can be compared: t is the Python type, v its        *)
(* payload, f the index of the owning function (blocks only).              *)

Val(t, v) == [t |-> t, v |-> v, f |-> 0]
IntV(n) == Val("int", n)
BoolV(b) == Val("bool", IF b THEN 1 ELSE 0)
\* Ptr(addr)
Ptr(a) == Val("ptr", a)
\* the UnitConst instance
UnitV == Val("unit", 0)
\* Python's None
NoneV == Val("none", 0)
\* a FunDefn / FunDecl object: v is the index of its declaration
FunDefnV(d) == Val("fundefn", d)
FunDeclV(d) == Val("fundecl", d)
\* a BasicBlock object (or the bare Ident a label-only block is parsed to)
BlockV(d, b) == [t |-> "block", v |-> b, f |-> d]

IsNum(x) == x.t \in {"int", "bool"}

\* no return pending
NoRet == Val("noret", 0)

-----------------------------------------------------------------------------
(* Identifiers.  An Ident's name is the region prefix followed by the     *)
(* body; it is kept as the pair <<prefix, body>>.                          *)

G(body) == <<"@", body>>
P(body) == <<"#", body>>
L(body) == <<"%", body>>
NoId == <<"", "">>

\* name.startswith("@")
StartsWithAt(name) == name[1] = "@"

-----------------------------------------------------------------------------
(* Python helpers *)

Max(a, b) == IF a >= b THEN a ELSE b
Min(a, b) == IF a <= b THEN a ELSE b

\* dict.get(key): None when the key is absent
DictGet(d, key) == IF key \in DOMAIN d THEN d[key] ELSE NoneV
\* d[key] = value
DictSet(d, key, value) ==
    [k \in (DOMAIN d) \cup {key} |-> IF k = key THEN value ELSE d[k]]
EmptyDict == [k \in {} |-> NoneV]

\* list[i] is defined for -len <= i < len; a negative i counts from the end
IndexOk(lst, i) == (0 - Len(lst)) <= i /\ i < Len(lst)
\* position (1-based) of list[i]
IndexPos(lst, i) == IF i < 0 THEN Len(lst) + i + 1 ELSE i + 1

\* a slice bound clamped as Python clamps it
SliceBound(lst, i) == IF i < 0 THEN Max(Len(lst) + i, 0) ELSE Min(i, Len(lst))
\* lst[i:j] = new
SliceAssign(lst, i, j, new) ==
    LET lo == SliceBound(lst, i)
        hi == Max(SliceBound(lst, j), lo)
    IN  SubSeq(lst, 1, lo) \o new \o SubSeq(lst, hi + 1, Len(lst))

Zeros(n) == [i \in 1..n |-> IntV(0)]

\* a // b and a % b for b # 0: Python floors the quotient
FloorDiv(a, b) == a \div b
PyMod(a, b) == a - b * (a \div b)

\* a truth value that takes only positive numbers for true
TruthyIfPositive(x) ==
    CASE x.t \in {"int", "bool"} -> x.v > 0
      [] x.t = "none" -> FALSE
      [] OTHER -> TRUE
\* truth value of a Python object
Truthy(x) ==
    CASE x.t \in {"int", "bool"} -> x.v # 0
      [] x.t = "none" -> FALSE
      [] OTHER -> TRUE

Exceptions == {"ZeroDivisionError", "TypeError", "AttributeError",
               "IndexError", "SemanticError", "EOFError"}
\* an exception in flight, carried in place of a value
Raised(kind) == Val(kind, 0)
IsErr(x) == x.t \in Exceptions

\* x & y, x | y, x ^ y on Python's unbounded two's complement integers
RECURSIVE BitAnd(_, _)
BitAnd(a, b) ==
    IF a = 0 \/ b = 0 THEN 0
    ELSE IF a = 0 - 1 THEN b
    ELSE IF b = 0 - 1 THEN a
    ELSE 2 * BitAnd(a \div 2, b \div 2) + (PyMod(a, 2) * PyMod(b, 2))
RECURSIVE BitOr(_, _)
BitOr(a, b) ==
    IF a = 0 THEN b
    ELSE IF b = 0 THEN a
    ELSE IF a = 0 - 1 \/ b = 0 - 1 THEN 0 - 1
    ELSE 2 * BitOr(a \div 2, b \div 2) + Max(PyMod(a, 2), PyMod(b, 2))
BitXor(a, b) == BitOr(a, b) - BitAnd(a, b)

-----------------------------------------------------------------------------
(* The AST.  Value nodes, instruction nodes, blocks and declarations are   *)
(* records of one shape per sort.                                          *)

IntConst(n) == [k |-> "int", n |-> n, id |-> NoId]
NoneConst == [k |-> "none", n |-> 0, id |-> NoId]
UnitConst == [k |-> "unit", n |-> 0, id |-> NoId]
Ident(id) == [k |-> "ident", n |-> 0, id |-> id]
Nil == [k |-> "nil", n |-> 0, id |-> NoId]

Base == [k |-> "nil", dst |-> NoId, binop |-> "", v1 |-> Nil, v2 |-> Nil,
         name |-> NoId, n |-> 0, offs |-> <<>>, args |-> <<>>,
         l1 |-> NoId, l2 |-> NoId]
\* let dst = binop v1, v2
LetBin(dst, binop, v1, v2) ==
    [Base EXCEPT !.k = "bin", !.dst = dst, !.binop = binop, !.v1 = v1, !.v2 = v2]
\* let dst = alloca T, n
LetAlloca(dst, n) == [Base EXCEPT !.k = "alloca", !.dst = dst, !.n = n]
\* let dst = load name
LetLoad(dst, name) == [Base EXCEPT !.k = "load", !.dst = dst, !.name = name]
\* let dst = store v, name
LetStore(dst, v, name) ==
    [Base EXCEPT !.k = "store", !.dst = dst, !.v1 = v, !.name = name]
\* let dst = offset T, name, [i1 < d1], ...   (offs: pairs <<index, dim>>)
LetGep(dst, name, offs) ==
    [Base EXCEPT !.k = "gep", !.dst = dst, !.name = name, !.offs = offs]
\* let dst = call name, args
LetCall(dst, name, args) ==
    [Base EXCEPT !.k = "call", !.dst = dst, !.name = name, !.args = args]
\* br cond, label l1, label l2
Br(cond, l1, l2) == [Base EXCEPT !.k = "br", !.v1 = cond, !.l1 = l1, !.l2 = l2]
\* jmp label l
Jmp(l) == [Base EXCEPT !.k = "jmp", !.l1 = l]
\* ret v
Ret(v) == [Base EXCEPT !.k = "ret", !.v1 = v]
\* a bare label standing where a terminator is expected
LabelNode(l) == [Base EXCEPT !.k = "ident", !.name = l]

\* items[1:-1]
AllButLast(s) == SubSeq(s, 1, Len(s) - 1)
\* The transformer's bb callback: BasicBlock(items[0], items[1:-1], items[-1]).
\* The rule is ?bb, so a label with no instruction after it is a single child
\* and stays the bare Ident: no BasicBlock is built for it.
BB(label, instrs) ==
    IF instrs = <<>>
    THEN [bare |-> TRUE, label |-> label, bindings |-> <<>>,
          terminator |-> LabelNode(label)]
    ELSE [bare |-> FALSE, label |-> label, bindings |-> AllButLast(instrs),
          terminator |-> instrs[Len(instrs)]]

\* @name : region T, n [= [values]]
GlobalDecl(name, n, values) ==
    [k |-> "global", name |-> name, n |-> n, values |-> values,
     params |-> <<>>, bbs |-> <<>>]
\* fn name (params) -> T { bbs }
FunDefn(name, params, bbs) ==
    [k |-> "fundefn", name |-> name, n |-> 0, values |-> <<>>,
     params |-> params, bbs |-> bbs]
\* fn name (params) -> T ;
FunDecl(name, params) ==
    [k |-> "fundecl", name |-> name, n |-> 0, values |-> <<>>,
     params |-> params, bbs |-> <<>>]

-----------------------------------------------------------------------------
(* Environment *)

\* a push_frame that lets the callee use the caller's frame
PushFrameShares(frs) == frs
\* Environment.push_frame
PushFrame(frs) == Append(frs, EmptyDict)
\* a pop_frame that leaves the frame in place
PopFrameKeeps(frs) == frs
\* Environment.pop_frame
PopFrame(frs) == SubSeq(frs, 1, Len(frs) - 1)

\* Environment.allocate(n, init): the fields after the call and the Ptr
\* it returns
Allocate(n, init) ==
    LET grow == size + n > capacity
        size_lacked == size + n - capacity
        size_to_extend == ((size_lacked + (Chunk - 1)) \div Chunk) * Chunk
        extended == IF grow THEN stack \o Zeros(size_to_extend) ELSE stack
        addr == size
    IN  [stack |-> IF init # <<>>
                   THEN SliceAssign(extended, addr, addr + n, init)
                   ELSE extended,
         capacity |-> IF grow THEN capacity + size_to_extend ELSE capacity,
         size |-> size + n,
         ptr |-> Ptr(addr)]

\* Environment.get_global
GetGlobal(name) == DictGet(global_env, name)
\* Environment.get_local: frames[-1] raises IndexError on an empty list
GetLocal(name) ==
    IF frames = <<>> THEN Raised("IndexError")
    ELSE DictGet(frames[Len(frames)], name)
\* Environment.get
EnvGet(name) == IF StartsWithAt(name) THEN GetGlobal(name) ELSE GetLocal(name)
\* Environment.add_local, on the frame list frs
AddLocal(frs, name, value) ==
    [frs EXCEPT ![Len(frs)] = DictSet(frs[Len(frs)], name, value)]

\* Environment.load: the value read, or the exception raised
EnvLoad(name) ==
    LET ptr == EnvGet(name)
    IN  IF IsErr(ptr) THEN ptr
        ELSE IF ptr.t # "ptr" THEN Raised("SemanticError")
        ELSE IF ~IndexOk(stack, ptr.v) THEN Raised("IndexError")
        ELSE stack[IndexPos(stack, ptr.v)]

\* a store that takes whatever the name is bound to for an address
EnvStoreUnchecked(name, value) ==
    LET ptr == EnvGet(name)
    IN  IF IsErr(ptr) THEN [stack |-> stack, exc |-> ptr]
        ELSE IF ~IndexOk(stack, ptr.v) THEN [stack |-> stack, exc |-> Raised("IndexError")]
        ELSE [stack |-> [stack EXCEPT ![IndexPos(stack, ptr.v)] = value],
              exc |-> NoneV]
\* Environment.store: the cell store after the call, and the exception raised
\* (NoneV when none is)
EnvStore(name, value) ==
    LET ptr == EnvGet(name)
    IN  IF IsErr(ptr) THEN [stack |-> stack, exc |-> ptr]
        ELSE IF ptr.t # "ptr" THEN [stack |-> stack, exc |-> Raised("SemanticError")]
        ELSE IF ~IndexOk(stack, ptr.v) THEN [stack |-> stack, exc |-> Raised("IndexError")]
        ELSE [stack |-> [stack EXCEPT ![IndexPos(stack, ptr.v)] = value],
              exc |-> NoneV]

-----------------------------------------------------------------------------
(* Evaluation of the nodes that do not transfer control *)

\* IntConst.eval, NoneConst.eval, UnitConst.eval, Ident.eval
EvalValue(node) ==
    CASE node.k = "int" -> IntV(node.n)
      [] node.k = "none" -> IntV(1)
      [] node.k = "unit" -> UnitV
      [] OTHER -> EnvGet(node.id)

\* Python's x == y on two runtime values
PyEq(x, y) ==
    IF IsNum(x) /\ IsNum(y) THEN x.v = y.v
    ELSE x.t = y.t /\ x.v = y.v /\ x.f = y.f

\* the arithmetic operators of BinExpr.eval on two integers
Add(a, b) == a + b
Sub(a, b) == a - b
Mul(a, b) == a * b
\* a division that yields 0 on a zero divisor instead of raising
DivZeroYieldsZero(a, b) == IF b = 0 THEN IntV(0) ELSE IntV(FloorDiv(a, b))
Div(a, b) == IF b = 0 THEN Raised("ZeroDivisionError") ELSE IntV(FloorDiv(a, b))
Rem(a, b) == IF b = 0 THEN Raised("ZeroDivisionError") ELSE IntV(PyMod(a, b))

\* BinExpr.eval on the evaluated operands
BinOp(binop, x, y) ==
    IF IsErr(x) THEN x
    ELSE IF IsErr(y) THEN y
    ELSE IF binop = "eq" THEN BoolV(PyEq(x, y))
    ELSE IF binop = "ne" THEN BoolV(~PyEq(x, y))
    ELSE IF ~(IsNum(x) /\ IsNum(y)) THEN Raised("TypeError")
    ELSE LET a == x.v
             b == y.v
             bools == x.t = "bool" /\ y.t = "bool"
         IN  CASE binop = "add" -> IntV(Add(a, b))
               [] binop = "sub" -> IntV(Sub(a, b))
               [] binop = "mul" -> IntV(Mul(a, b))
               [] binop = "div" -> Div(a, b)
               [] binop = "rem" -> Rem(a, b)
               [] binop = "and" -> Val(IF bools THEN "bool" ELSE "int", BitAnd(a, b))
               [] binop = "or" -> Val(IF bools THEN "bool" ELSE "int", BitOr(a, b))
               [] binop = "xor" -> Val(IF bools THEN "bool" ELSE "int", BitXor(a, b))
               [] binop = "lt" -> BoolV(a < b)
               [] binop = "le" -> BoolV(a <= b)
               [] binop = "gt" -> BoolV(a > b)
               [] binop = "ge" -> BoolV(a >= b)
               [] OTHER -> Raised("SemanticError")

\* BinExpr.eval
BinExprEval(node) == BinOp(node.binop, EvalValue(node.v1), EvalValue(node.v2))

\* an offset step in which the dimension none contributes the factor 0
GepStepNoneIsZero(addr, idx, dim) ==
    LET d == EvalValue(dim)
        i == EvalValue(idx)
    IN  IntV(addr.v * (IF dim.k = "none" THEN 0 ELSE d.v) + i.v)
\* one iteration of the loop of Gep.eval: addr * dim.eval() + idx.eval()
GepStep(addr, idx, dim) ==
    LET d == EvalValue(dim)
        i == EvalValue(idx)
    IN  IF IsErr(addr) THEN addr
        ELSE IF IsErr(i) THEN i
        ELSE IF ~IsNum(i) THEN Raised("TypeError")
        ELSE IntV(addr.v * d.v + i.v)
RECURSIVE GepFold(_, _, _)
GepFold(addr, offs, k) ==
    IF k > Len(offs) THEN addr
    ELSE GepFold(GepStep(addr, offs[k][1], offs[k][2]), offs, k + 1)
\* Gep.eval: env.get(name).addr exists only on a Ptr
GepEval(node) ==
    LET base == EnvGet(node.name)
    IN  IF IsErr(base) THEN base
        ELSE IF base.t # "ptr" THEN Raised("AttributeError")
        ELSE LET a == GepFold(IntV(base.v), node.offs, 1)
             IN  IF IsErr(a) THEN a ELSE Ptr(a.v)

\* the exit status exit(return_value) ends the process with: 0 for None, the
\* integer itself for an integer (the status handed to the C library, of
\* which the operating system keeps the low eight bits), and 1 for any
\* other object, which is printed to stderr
SysExit(r) ==
    CASE r.t = "none" -> 0
      [] IsNum(r) -> r.v
      [] OTHER -> 1

-----------------------------------------------------------------------------
(* The evaluator's position *)

\* a BasicBlock.eval activation: block b of declaration d, at item pc; mode
\* "fun" when FunDefn.eval started it (Body.eval), "discard" when a br or jmp
\* standing among the bindings did
Activation(d, b, mode) == [d |-> d, b |-> b, pc |-> 1, mode |-> mode]

Running == status = "run" /\ retval = NoRet /\ ctl # <<>>
Top == ctl[Len(ctl)]
BlockOf(act) == prog[act.d].bbs[act.b]
\* the loop over bindings is over: the terminator is being evaluated
InTermPos == Top.pc > Len(BlockOf(Top).bindings)
\* the node being evaluated
Cur == IF InTermPos THEN BlockOf(Top).terminator
       ELSE BlockOf(Top).bindings[Top.pc]
\* the next binding of the same block
Advance == [ctl EXCEPT ![Len(ctl)].pc = @ + 1]

\* an exception nobody catches: traceback, exit status 1
Raise(exc) ==
    /\ status' = "fatal"
    /\ err' = exc.t
    /\ exitcode' = 1
    /\ UNCHANGED <<ctl, retval>>

\* the node's value v is dropped (a binding) or is the block's value (the
\* terminator)
Yield(v) ==
    /\ IF InTermPos THEN ctl' = ctl /\ retval' = v
       ELSE ctl' = Advance /\ retval' = NoRet
    /\ UNCHANGED <<status, err, exitcode>>

\* ValueBinding.eval once the op has produced x: add_local, return None
Bind(dst, x) ==
    IF IsErr(x) THEN Raise(x) /\ UNCHANGED frames
    ELSE IF frames = <<>> THEN Raise(Raised("IndexError")) /\ UNCHANGED frames
    ELSE frames' = AddLocal(frames, dst, x) /\ Yield(NoneV)

-----------------------------------------------------------------------------
(* Function entry: PList.eval, then the label loop of FunDefn.eval *)

\* [value.eval() for value in values]
RECURSIVE EvalAll(_, _)
EvalAll(nodes, k) ==
    IF k > Len(nodes) THEN <<>>
    ELSE <<EvalValue(nodes[k])>> \o EvalAll(nodes, k + 1)
FirstErr(vals) ==
    IF \E i \in 1..Len(vals) : IsErr(vals[i])
    THEN vals[CHOOSE i \in 1..Len(vals) :
                 IsErr(vals[i]) /\ \A j \in 1..(i - 1) : ~IsErr(vals[j])]
    ELSE NoneV

\* a parameter loop that binds the arguments in reverse order
BindParamsReversed(frs, params, values, k) ==
    [frs EXCEPT ![Len(frs)] =
        [name \in DOMAIN frs[Len(frs)]
                  \cup {params[i] : i \in k..Min(Len(params), Len(values))} |->
            IF \E i \in k..Min(Len(params), Len(values)) : params[i] = name
            THEN values[Len(values) + 1
                        - (CHOOSE i \in k..Min(Len(params), Len(values)) :
                              params[i] = name)]
            ELSE frs[Len(frs)][name]]]
\* for (name, _), value in zip(params, values): add_local(name, value)
RECURSIVE BindParams(_, _, _, _)
BindParams(frs, params, values, k) ==
    IF k > Len(params) \/ k > Len(values) THEN frs
    ELSE BindParams(AddLocal(frs, params[k], values[k]), params, values, k + 1)

\* for bb in body.bbs: add_local(bb.label, bb).  An element that is a bare
\* Ident has no attribute label.
RECURSIVE RegisterLabels(_, _, _)
RegisterLabels(frs, d, k) ==
    IF k > Len(prog[d].bbs) THEN [frames |-> frs, exc |-> NoneV]
    ELSE IF prog[d].bbs[k].bare
         THEN [frames |-> frs, exc |-> Raised("AttributeError")]
         ELSE RegisterLabels(AddLocal(frs, prog[d].bbs[k].label, BlockV(d, k)),
                             d, k + 1)

\* FunDefn.eval up to the entry of bbs[0]: the frame list, and the exception
\* raised on the way (NoneV when none is)
EnterFun(d, values) ==
    LET bound == BindParams(PushFrame(frames), prog[d].params, values, 1)
        reg == RegisterLabels(bound, d, 1)
    IN  IF IsErr(reg.exc) THEN reg
        ELSE IF prog[d].bbs = <<>>
             THEN [frames |-> reg.frames, exc |-> Raised("IndexError")]
             ELSE reg

-----------------------------------------------------------------------------
(* Load phase: the transformer constructs the declarations in text order *)

Loading == status = "load" /\ loaded < Len(prog)
NextDecl == prog[loaded + 1]

\* an add_global that overwrites the binding of a name already present
AddGlobalOverwrites(env, name, value) ==
    [global_env |-> DictSet(env, name, value), exc |-> NoneV]
\* Environment.add_global on the table env: the table, and the exception
AddGlobal(env, name, value) ==
    IF name \in DOMAIN env
    THEN [global_env |-> env, exc |-> Raised("SemanticError")]
    ELSE [global_env |-> DictSet(env, name, value), exc |-> NoneV]

\* a GlobalDecl.__init__ that compares the initializer count with the size
\* after the cells have been allocated and written
LoadGlobalDeclChecksLate ==
    /\ Loading
    /\ NextDecl.k = "global"
    /\ LET decl == NextDecl
           values == EvalAll(decl.values, 1)
           al == Allocate(decl.n, values)
           ag == AddGlobal(global_env, decl.name, al.ptr)
       IN  IF IsErr(FirstErr(values))
           THEN /\ Raise(FirstErr(values))
                /\ UNCHANGED <<loaded, global_env, stack, capacity, size>>
           ELSE /\ stack' = al.stack
                /\ capacity' = al.capacity
                /\ size' = al.size
                /\ IF decl.values # <<>> /\ Len(decl.values) # decl.n
                   THEN Raise(Raised("SemanticError"))
                        /\ UNCHANGED <<loaded, global_env>>
                   ELSE /\ global_env' = ag.global_env
                        /\ IF IsErr(ag.exc)
                           THEN Raise(ag.exc) /\ UNCHANGED loaded
                           ELSE loaded' = loaded + 1
                                /\ UNCHANGED <<status, err, exitcode, ctl, retval>>
    /\ UNCHANGED <<scan, prog, frames, out, inp>>

\* GlobalDecl.__init__
LoadGlobalDecl ==
    /\ Loading
    /\ NextDecl.k = "global"
    /\ LET decl == NextDecl
           values == EvalAll(decl.values, 1)
           al == Allocate(decl.n, values)
           ag == AddGlobal(global_env, decl.name, al.ptr)
       IN  IF decl.values # <<>> /\ Len(decl.values) # decl.n
           THEN /\ Raise(Raised("SemanticError"))
                /\ UNCHANGED <<loaded, global_env, stack, capacity, size>>
           ELSE IF IsErr(FirstErr(values))
           THEN /\ Raise(FirstErr(values))
                /\ UNCHANGED <<loaded, global_env, stack, capacity, size>>
           ELSE /\ stack' = al.stack
                /\ capacity' = al.capacity
                /\ size' = al.size
                /\ global_env' = ag.global_env
                /\ IF IsErr(ag.exc)
                   THEN Raise(ag.exc) /\ UNCHANGED loaded
                   ELSE loaded' = loaded + 1
                        /\ UNCHANGED <<status, err, exitcode, ctl, retval>>
    /\ UNCHANGED <<scan, prog, frames, out, inp>>

\* FunDefn.__init__
LoadFunDefn ==
    /\ Loading
    /\ NextDecl.k = "fundefn"
    /\ LET ag == AddGlobal(global_env, NextDecl.name, FunDefnV(loaded + 1))
       IN  /\ global_env' = ag.global_env
           /\ IF IsErr(ag.exc)
              THEN Raise(ag.exc) /\ UNCHANGED loaded
              ELSE loaded' = loaded + 1
                   /\ UNCHANGED <<status, err, exitcode, ctl, retval>>
    /\ UNCHANGED <<scan, prog, frames, stack, capacity, size, out, inp>>

\* eval(): look @main up and call it with no arguments
StartMain ==
    /\ status = "load"
    /\ loaded = Len(prog)
    /\ LET main == DictGet(global_env, G("main"))
       IN  IF main.t # "fundefn"
           THEN Raise(Raised("SemanticError")) /\ UNCHANGED frames
           ELSE LET en == EnterFun(main.v, <<>>)
                IN  /\ frames' = en.frames
                    /\ IF IsErr(en.exc) THEN Raise(en.exc)
                       ELSE /\ status' = "run"
                            /\ ctl' = <<Activation(main.v, 1, "fun")>>
                            /\ UNCHANGED <<retval, err, exitcode>>
    /\ UNCHANGED <<scan, prog, loaded, global_env, stack, capacity, size, out, inp>>

-----------------------------------------------------------------------------
(* Run phase: one action per node evaluated *)

\* ValueBinding.eval of a BinExpr
ExecBin ==
    /\ Running
    /\ Cur.k = "bin"
    /\ Bind(Cur.dst, BinExprEval(Cur))
    /\ UNCHANGED <<scan, prog, loaded, global_env, stack, capacity, size, out, inp>>

\* ValueBinding.eval of an Alloca
ExecAlloca ==
    /\ Running
    /\ Cur.k = "alloca"
    /\ LET al == Allocate(Cur.n, <<>>)
       IN  /\ stack' = al.stack
           /\ capacity' = al.capacity
           /\ size' = al.size
           /\ Bind(Cur.dst, al.ptr)
    /\ UNCHANGED <<scan, prog, loaded, global_env, out, inp>>

\* ValueBinding.eval of a Load
ExecLoad ==
    /\ Running
    /\ Cur.k = "load"
    /\ Bind(Cur.dst, EnvLoad(Cur.name))
    /\ UNCHANGED <<scan, prog, loaded, global_env, stack, capacity, size, out, inp>>

\* ValueBinding.eval of a Store: Store.eval returns None
ExecStore ==
    /\ Running
    /\ Cur.k = "store"
    /\ LET value == EvalValue(Cur.v1)
           st == EnvStore(Cur.name, value)
       IN  IF IsErr(value)
           THEN Raise(value) /\ UNCHANGED <<frames, stack>>
           ELSE IF IsErr(st.exc)
           THEN Raise(st.exc) /\ UNCHANGED <<frames, stack>>
           ELSE stack' = st.stack /\ Bind(Cur.dst, NoneV)
    /\ UNCHANGED <<scan, prog, loaded, global_env, capacity, size, out, inp>>

\* ValueBinding.eval of a Gep
ExecGep ==
    /\ Running
    /\ Cur.k = "gep"
    /\ Bind(Cur.dst, GepEval(Cur))
    /\ UNCHANGED <<scan, prog, loaded, global_env, stack, capacity, size, out, inp>>

\* Fncall.eval of the built-in @write: print the first argument, return 0
ExecWrite ==
    /\ Running
    /\ Cur.k = "call"
    /\ Cur.name = G("write")
    /\ LET x == IF Cur.args = <<>> THEN Raised("IndexError")
                ELSE EvalValue(Cur.args[1])
       IN  IF IsErr(x)
           THEN Raise(x) /\ UNCHANGED <<frames, out>>
           ELSE out' = Append(out, x) /\ Bind(Cur.dst, IntV(0))
    /\ UNCHANGED <<scan, prog, loaded, global_env, stack, capacity, size, inp>>

\* Fncall.eval of the built-in @read: int(input())
ExecRead ==
    /\ Running
    /\ Cur.k = "call"
    /\ Cur.name = G("read")
    /\ IF inp = <<>>
       THEN Raise(Raised("EOFError")) /\ UNCHANGED <<frames, inp>>
       ELSE inp' = Tail(inp) /\ Bind(Cur.dst, IntV(Head(inp)))
    /\ UNCHANGED <<scan, prog, loaded, global_env, stack, capacity, size, out>>

\* a call in which a name that is not a function definition is skipped: the
\* call yields 0
ExecCallUnknownIsNoOp ==
    /\ Running
    /\ Cur.k = "call"
    /\ Cur.name \notin {G("write"), G("read")}
    /\ LET fun == GetGlobal(Cur.name)
           values == EvalAll(Cur.args, 1)
           en == EnterFun(fun.v, values)
       IN  IF fun.t # "fundefn"
           THEN Bind(Cur.dst, IntV(0))
           ELSE IF IsErr(FirstErr(values))
           THEN Raise(FirstErr(values)) /\ UNCHANGED frames
           ELSE /\ frames' = en.frames
                /\ IF IsErr(en.exc) THEN Raise(en.exc)
                   ELSE /\ ctl' = Append(ctl, Activation(fun.v, 1, "fun"))
                        /\ UNCHANGED <<retval, status, err, exitcode>>
    /\ UNCHANGED <<scan, prog, loaded, global_env, stack, capacity, size, out, inp>>

\* Fncall.eval of any other name: get_global, isinstance check, fun.eval(args).
\* A FunDecl passes the check and has no eval method.
ExecCall ==
    /\ Running
    /\ Cur.k = "call"
    /\ Cur.name \notin {G("write"), G("read")}
    /\ LET fun == GetGlobal(Cur.name)
           values == EvalAll(Cur.args, 1)
           en == EnterFun(fun.v, values)
       IN  IF fun.t \notin {"fundefn", "fundecl"}
           THEN Raise(Raised("SemanticError")) /\ UNCHANGED frames
           ELSE IF fun.t = "fundecl"
           THEN Raise(Raised("AttributeError")) /\ UNCHANGED frames
           ELSE IF IsErr(FirstErr(values))
           THEN Raise(FirstErr(values)) /\ UNCHANGED frames
           ELSE /\ frames' = en.frames
                /\ IF IsErr(en.exc) THEN Raise(en.exc)
                   ELSE /\ ctl' = Append(ctl, Activation(fun.v, 1, "fun"))
                        /\ UNCHANGED <<retval, status, err, exitcode>>
    /\ UNCHANGED <<scan, prog, loaded, global_env, stack, capacity, size, out, inp>>

\* env.get(label).eval(): a BasicBlock is evaluated, in place of this block
\* when the node is the terminator, nested when it stands among the bindings;
\* the UnitConst instance evaluates to itself; a FunDefn's eval lacks its
\* argument; nothing else has an eval method
Transfer(label) ==
    LET target == EnvGet(label)
    IN  CASE target.t = "block" ->
               /\ ctl' = IF InTermPos
                         THEN [ctl EXCEPT ![Len(ctl)] =
                                  Activation(target.f, target.v, Top.mode)]
                         ELSE Append(ctl, Activation(target.f, target.v, "discard"))
               /\ UNCHANGED <<retval, status, err, exitcode>>
          [] target.t = "unit" -> Yield(UnitV)
          [] target.t = "fundefn" -> Raise(Raised("TypeError"))
          [] IsErr(target) -> Raise(target)
          [] OTHER -> Raise(Raised("AttributeError"))

\* what Jmp.eval does for the label l where the evaluator stands
JmpTo(l) ==
    /\ Transfer(l)
    /\ UNCHANGED <<scan, prog, loaded, global_env, frames, stack, capacity, size, out, inp>>

\* Br.eval
ExecBr ==
    /\ Running
    /\ Cur.k = "br"
    /\ LET cond == EvalValue(Cur.v1)
       IN  IF IsErr(cond) THEN Raise(cond)
           ELSE Transfer(IF Truthy(cond) THEN Cur.l1 ELSE Cur.l2)
    /\ UNCHANGED <<scan, prog, loaded, global_env, frames, stack, capacity, size, out, inp>>

\* Jmp.eval
ExecJmp ==
    /\ Running
    /\ Cur.k = "jmp"
    /\ Transfer(Cur.l1)
    /\ UNCHANGED <<scan, prog, loaded, global_env, frames, stack, capacity, size, out, inp>>

\* Ret.eval
ExecRet ==
    /\ Running
    /\ Cur.k = "ret"
    /\ LET r == EvalValue(Cur.v1)
       IN  IF IsErr(r) THEN Raise(r) ELSE Yield(r)
    /\ UNCHANGED <<scan, prog, loaded, global_env, frames, stack, capacity, size, out, inp>>

\* A block activation returns retval to whoever started it.
\*  - a br/jmp among the bindings drops the value: the outer block goes on;
\*  - FunDefn.eval pops the frame and returns the value; the caller is the
\*    ValueBinding of a call, which binds it in the caller's frame, or, for
\*    @main, the driver, which exits with it (the exit summary it prints
\*    first is not part of out).
Return ==
    /\ status = "run"
    /\ retval # NoRet
    /\ ctl # <<>>
    /\ LET rest == SubSeq(ctl, 1, Len(ctl) - 1)
           popped == PopFrame(frames)
           caller == rest[Len(rest)]
           blk == prog[caller.d].bbs[caller.b]
           atTerm == caller.pc > Len(blk.bindings)
           node == IF atTerm THEN blk.terminator ELSE blk.bindings[caller.pc]
       IN  IF Top.mode = "discard"
           THEN /\ ctl' = [rest EXCEPT ![Len(rest)].pc = @ + 1]
                /\ retval' = NoRet
                /\ UNCHANGED <<frames, status, err, exitcode, out>>
           ELSE IF rest = <<>>
           THEN /\ frames' = popped
                /\ ctl' = rest
                /\ status' = "exited"
                /\ exitcode' = SysExit(retval)
                /\ UNCHANGED <<retval, err, out>>
           ELSE /\ frames' = AddLocal(popped, node.dst, retval)
                /\ ctl' = IF atTerm THEN rest
                          ELSE [rest EXCEPT ![Len(rest)].pc = @ + 1]
                /\ retval' = IF atTerm THEN NoneV ELSE NoRet
                /\ UNCHANGED <<status, err, exitcode, out>>
    /\ UNCHANGED <<scan, prog, loaded, global_env, stack, capacity, size, inp>>

\* FunDecl.__init__
LoadFunDecl ==
    /\ Loading
    /\ NextDecl.k = "fundecl"
    /\ LET ag == AddGlobal(global_env, NextDecl.name, FunDeclV(loaded + 1))
       IN  /\ global_env' = ag.global_env
           /\ IF IsErr(ag.exc)
              THEN Raise(ag.exc) /\ UNCHANGED loaded
              ELSE loaded' = loaded + 1
                   /\ UNCHANGED <<status, err, exitcode, ctl, retval>>
    /\ UNCHANGED <<scan, prog, frames, stack, capacity, size, out, inp>>

-----------------------------------------------------------------------------
(* The programs interpreted.  Each family is a program text with holes;    *)
(* the holes range over the sets below.                                    *)

BinOps == {"add", "sub", "mul", "div", "rem", "and", "or", "xor",
           "eq", "ne", "lt", "le", "gt", "ge"}
\* integer literals: the ends of the signed word, and small values of both
\* signs
IntSamples == {MinInt, 0 - 7, 0 - 1, 0, 1, 2, 7, MaxInt}
\* dimensions of an offset step: none, or a known size
Dims == {NoneConst} \cup {IntConst(d) : d \in 1..MaxDim}
Indices == 0..MaxDim

\* fn @main() -> T { %entry: instrs }
MainOnly(instrs) == <<FunDefn(G("main"), <<>>, <<BB(L("entry"), instrs)>>)>>

\* fn @main() -> T { %entry: ret v }
RetProgs ==
    {MainOnly(<<Ret(v)>>) :
        v \in {UnitConst, NoneConst}
              \cup {IntConst(n) : n \in IntSamples \cup {25}}}

\* let %x = op a, b ; let %w = call @write, %x ; ret %x
BinProg(binop, a, b) ==
    MainOnly(<<LetBin(L("x"), binop, IntConst(a), IntConst(b)),
               LetCall(L("w"), G("write"), <<Ident(L("x"))>>),
               Ret(Ident(L("x")))>>)
BinProgs == {BinProg(binop, a, b) : binop \in BinOps, a \in IntSamples, b \in IntSamples}

\* @pad : region i32, pad
\* @a : region i32, 8
\* let %p = offset i32, @a, [i1 < d1], [i2 < d2]
\* let %q = offset i32, %p, [i3 < d3] ; ret ()
GepProg(pad, i1, d1, i2, d2, i3, d3) ==
    <<GlobalDecl(G("pad"), pad, <<>>),
      GlobalDecl(G("a"), 8, <<>>),
      FunDefn(G("main"), <<>>,
        <<BB(L("entry"),
             <<LetGep(L("p"), G("a"), <<<<IntConst(i1), d1>>, <<IntConst(i2), d2>>>>),
               LetGep(L("q"), L("p"), <<<<IntConst(i3), d3>>>>),
               Ret(UnitConst)>>)>>)>>
GepProgs ==
    {GepProg(pad, i1, d1, i2, d2, i3, d3) :
        pad \in {0, 1, 3}, i1 \in Indices, d1 \in Dims, i2 \in Indices, d2 \in Dims,
        i3 \in {0, 1}, d3 \in {NoneConst, IntConst(2)}}

\* the initializer 10, 11, ... of a region of k cells
InitValues(k) == [j \in 1..k |-> IntConst(9 + j)]
\* @pad : region i32, pad
\* @a : region i32, k = [10, 11, ...]
\* let %p = offset i32, @a, [i < k] ; let %v = load %p
\* let %w = call @write, %v ; ret %v
GlobalProg(pad, k, i) ==
    <<GlobalDecl(G("pad"), pad, <<>>),
      GlobalDecl(G("a"), k, InitValues(k)),
      FunDefn(G("main"), <<>>,
        <<BB(L("entry"),
             <<LetGep(L("p"), G("a"), <<<<IntConst(i), IntConst(k)>>>>),
               LetLoad(L("v"), L("p")),
               LetCall(L("w"), G("write"), <<Ident(L("v"))>>),
               Ret(Ident(L("v")))>>)>>)>>
GlobalProgs ==
    {GlobalProg(pad, k, i) : pad \in {0, 1, 2}, k \in 1..(MaxDim + 1), i \in 0..MaxDim}

\* @g : region i32, g
\* let %a = alloca i32, m ; let %p = alloca i32, n
\* let %s = store v, %p ; let %l = load %p ; ret %l
MemProg(g, m, n, v) ==
    <<GlobalDecl(G("g"), g, <<>>),
      FunDefn(G("main"), <<>>,
        <<BB(L("entry"),
             <<LetAlloca(L("a"), m),
               LetAlloca(L("p"), n),
               LetStore(L("s"), IntConst(v), L("p")),
               LetLoad(L("l"), L("p")),
               Ret(Ident(L("l")))>>)>>)>>
MemProgs ==
    {MemProg(g, m, n, v) :
        g \in {0, 1, Chunk - 1, Chunk}, m \in {0, 1, Chunk},
        n \in {0, 1, 2}, v \in {MinInt, 7}}

\* @g : region i32, 4
\* let %p = offset i32, @g, [i < none]
\* let %s = store 7, %p ; let %l = load %p ; ret %l
DerefProg(i) ==
    <<GlobalDecl(G("g"), 4, <<>>),
      FunDefn(G("main"), <<>>,
        <<BB(L("entry"),
             <<LetGep(L("p"), G("g"), <<<<IntConst(i), NoneConst>>>>),
               LetStore(L("s"), IntConst(7), L("p")),
               LetLoad(L("l"), L("p")),
               Ret(Ident(L("l")))>>)>>)>>
DerefProgs ==
    {DerefProg(i) : i \in {0 - Chunk - 1, 0 - Chunk, 0 - 1, 0, 3, Chunk - 1, Chunk}}

\* the recursive factorial of the test corpus, called from @main with n
Factorial ==
    FunDefn(G("factorial"), <<P("n")>>,
      <<BB(L("Lentry"),
           <<LetAlloca(L("ret.addr"), 1),
             LetBin(L("cmp"), "eq", Ident(P("n")), IntConst(0)),
             Br(Ident(L("cmp")), L("Ltrue"), L("Lfalse"))>>),
        BB(L("Ltrue"),
           <<LetStore(L("6"), IntConst(1), L("ret.addr")),
             Jmp(L("Lret"))>>),
        BB(L("Lfalse"),
           <<LetBin(L("9"), "sub", Ident(P("n")), IntConst(1)),
             LetCall(L("res"), G("factorial"), <<Ident(L("9"))>>),
             LetBin(L("11"), "mul", Ident(P("n")), Ident(L("res"))),
             LetStore(L("12"), Ident(L("11")), L("ret.addr")),
             Jmp(L("Lret"))>>),
        BB(L("Lret"),
           <<LetLoad(L("ret.val"), L("ret.addr")),
             Ret(Ident(L("ret.val")))>>)>>)
FactorialProg(n) ==
    <<Factorial,
      FunDefn(G("main"), <<>>,
        <<BB(L("entry"),
             <<LetCall(L("r"), G("factorial"), <<IntConst(n)>>),
               LetCall(L("w"), G("write"), <<Ident(L("r"))>>),
               Ret(Ident(L("r")))>>)>>)>>
FactorialProgs == {FactorialProg(n) : n \in 0..MaxRec}

\* fn @add(#1, #2) { %entry: let %3 = add #1, #2 ; ret %3 }
\* fn @twice(#a) { %entry: let %b = call @add, #a, #a ; ret %b }
\* @main: let %r = call @twice, a ; let %w = call @write, %r ; ret %r
NestedProg(a) ==
    <<FunDefn(G("add"), <<P("1"), P("2")>>,
        <<BB(L("entry"),
             <<LetBin(L("3"), "add", Ident(P("1")), Ident(P("2"))),
               Ret(Ident(L("3")))>>)>>),
      FunDefn(G("twice"), <<P("a")>>,
        <<BB(L("entry"),
             <<LetCall(L("b"), G("add"), <<Ident(P("a")), Ident(P("a"))>>),
               Ret(Ident(L("b")))>>)>>),
      FunDefn(G("main"), <<>>,
        <<BB(L("entry"),
             <<LetCall(L("r"), G("twice"), <<IntConst(a)>>),
               LetCall(L("w"), G("write"), <<Ident(L("r"))>>),
               Ret(Ident(L("r")))>>)>>)>>
NestedProgs == {NestedProg(a) : a \in IntSamples}

\* let %x = call @read ; let %w = call @write, %x ; ret %x
ReadProg ==
    MainOnly(<<LetCall(L("x"), G("read"), <<>>),
               LetCall(L("w"), G("write"), <<Ident(L("x"))>>),
               Ret(Ident(L("x")))>>)

\* fn @ext(#a) -> i32 ;
\* @main: let %x = call @ext, 1 ; ret %x
ExternProg ==
    <<FunDecl(G("ext"), <<P("a")>>),
      FunDefn(G("main"), <<>>,
        <<BB(L("entry"),
             <<LetCall(L("x"), G("ext"), <<IntConst(1)>>),
               Ret(Ident(L("x")))>>)>>)>>

\* @x : region i32, 1
\* let %x = add 5, 0 ; let %w = call @write, v ; ret v
LookupProg(v) ==
    <<GlobalDecl(G("x"), 1, <<>>),
      FunDefn(G("main"), <<>>,
        <<BB(L("entry"),
             <<LetBin(L("x"), "add", IntConst(5), IntConst(0)),
               LetCall(L("w"), G("write"), <<v>>),
               Ret(v)>>)>>)>>
LookupProgs ==
    {LookupProg(Ident(id)) :
        id \in {L("x"), G("x"), P("x"), L("undefined"), G("undefined")}}

\* fn @f() { %entry: let %a = add 1, 2 }                (no terminator)
\* fn @e() { %entry: }                                  (no instruction)
\* fn @main() { %entry: jmp label %next
\*              %next: let %r = call @callee ; let %w = call @write, last }
\* and the same with ret last after the write
BlockProg(callee, last, closed) ==
    <<FunDefn(G("f"), <<>>,
        <<BB(L("entry"), <<LetBin(L("a"), "add", IntConst(1), IntConst(2))>>)>>),
      FunDefn(G("e"), <<>>, <<BB(L("entry"), <<>>)>>),
      FunDefn(G("main"), <<>>,
        <<BB(L("entry"), <<Jmp(L("next"))>>),
          BB(L("next"),
             <<LetCall(L("r"), callee, <<>>),
               LetCall(L("w"), G("write"), <<last>>)>>
             \o (IF closed THEN <<Ret(last)>> ELSE <<>>))>>)>>
BlockProgs ==
    {BlockProg(callee, last, closed) :
        callee \in {G("f"), G("e")}, last \in {IntConst(3), Ident(L("r"))},
        closed \in BOOLEAN}
    \cup {MainOnly(<<>>),
          MainOnly(<<LetBin(L("a"), "add", IntConst(1), IntConst(2))>>),
          <<FunDefn(G("main"), <<>>, <<>>)>>}

\* @g : region i32, 1
\* fn @ext(#a) -> i32 ;
\* @main: let %x = call callee, 1 ; let %w = call @write, %x ; ret %x
CallProg(callee) ==
    <<GlobalDecl(G("g"), 1, <<>>),
      FunDecl(G("ext"), <<P("a")>>),
      FunDefn(G("main"), <<>>,
        <<BB(L("entry"),
             <<LetCall(L("x"), callee, <<IntConst(1)>>),
               LetCall(L("w"), G("write"), <<Ident(L("x"))>>),
               Ret(Ident(L("x")))>>)>>)>>
CallProgs == {CallProg(callee) : callee \in {G("undefined"), G("g"), G("ext"), G("putint")}}

\* sizes of a region or an alloca: int_const is a signed literal
AllocSizes == {0 - 1, 0, 1, 2}
\* @g : region i32, g
\* let %a = alloca i32, n1 ; let %b = alloca i32, n2 ; let %c = alloca i32, n3
\* let %s = store 7, %c ; ret 0
AllocProg(g, n1, n2, n3) ==
    <<GlobalDecl(G("g"), g, <<>>),
      FunDefn(G("main"), <<>>,
        <<BB(L("entry"),
             <<LetAlloca(L("a"), n1),
               LetAlloca(L("b"), n2),
               LetAlloca(L("c"), n3),
               LetStore(L("s"), IntConst(7), L("c")),
               Ret(IntConst(0))>>)>>)>>
AllocProgs ==
    {AllocProg(g, n1, n2, n3) :
        g \in {0 - 1, 0, 2}, n1 \in AllocSizes, n2 \in AllocSizes, n3 \in AllocSizes}

\* @a : region i32, n1 [= v1]
\* name : region i32, n2 [= v2]
\* fn @main() -> i32 { %entry: ret 0 }
RegionProg(n1, v1, name, n2, v2) ==
    <<GlobalDecl(G("a"), n1, v1),
      GlobalDecl(name, n2, v2),
      FunDefn(G("main"), <<>>, <<BB(L("entry"), <<Ret(IntConst(0))>>)>>)>>
RegionProgs ==
    {RegionProg(n1, v1, name, n2, v2) :
        n1 \in {0 - 1, 0, 2, Chunk, Chunk + 1}, v1 \in {<<>>, InitValues(2)},
        name \in {G("a"), G("b")},
        n2 \in {0, 1, 2, Chunk}, v2 \in {<<>>, InitValues(1), InitValues(2)}}

\* a declaration of the name @d of each sort
DeclOf(sort) ==
    CASE sort = "global" -> GlobalDecl(G("d"), 1, InitValues(1))
      [] sort = "fundefn" ->
            FunDefn(G("d"), <<>>, <<BB(L("entry"), <<Ret(IntConst(3))>>)>>)
      [] OTHER -> FunDecl(G("d"), <<>>)
\* two declarations of @d, a region @o between them when mid, then @main
DupProg(first, mid, second) ==
    <<DeclOf(first)>>
    \o (IF mid THEN <<GlobalDecl(G("o"), 2, <<>>)>> ELSE <<>>)
    \o <<DeclOf(second),
         FunDefn(G("main"), <<>>, <<BB(L("entry"), <<Ret(IntConst(0))>>)>>)>>
DupProgs ==
    {DupProg(first, mid, second) :
        first \in {"global", "fundefn", "fundecl"}, mid \in BOOLEAN,
        second \in {"global", "fundefn", "fundecl"}}
    \cup {<<FunDefn(G("main"), <<>>, <<BB(L("entry"), <<Ret(IntConst(0))>>)>>),
            FunDefn(G("main"), <<>>, <<BB(L("entry"), <<Ret(IntConst(1))>>)>>)>>}

\* fn @pick(#c) -> i32 {
\*   %entry: transfer [ret 5]
\*   %t: let %w = call @write, 1 ; ret 11
\*   %f: let %w = call @write, 2 ; ret 12 }
\* fn @main() -> i32 { %entry: let %r = call @pick, c ; ret %r }
PickProg(transfer, tail, c) ==
    <<FunDefn(G("pick"), <<P("c")>>,
        <<BB(L("entry"), <<transfer>> \o (IF tail THEN <<>> ELSE <<Ret(IntConst(5))>>)),
          BB(L("t"), <<LetCall(L("w"), G("write"), <<IntConst(1)>>), Ret(IntConst(11))>>),
          BB(L("f"), <<LetCall(L("w"), G("write"), <<IntConst(2)>>), Ret(IntConst(12))>>)>>),
      FunDefn(G("main"), <<>>,
        <<BB(L("entry"),
             <<LetCall(L("r"), G("pick"), <<IntConst(c)>>),
               Ret(Ident(L("r")))>>)>>)>>
PickProgs ==
    {PickProg(transfer, tail, c) :
        transfer \in {Br(Ident(P("c")), L("t"), L("f")), Jmp(L("t")), Jmp(L("f"))},
        tail \in BOOLEAN, c \in IntSamples}
    \cup {PickProg(Br(IntConst(c), L("t"), L("f")), tail, c) :
            tail \in BOOLEAN, c \in IntSamples}

\* fn @u() -> () { %entry: ret () }
\* fn @main() -> i32 {
\*   %entry: [let %next = shadow] transfer
\*   %next: let %w = call @write, 1 ; ret 1
\*   %other: let %w = call @write, 2 ; ret 2 }
LabelProg(shadow, transfer) ==
    <<FunDefn(G("u"), <<>>, <<BB(L("entry"), <<Ret(UnitConst)>>)>>),
      FunDefn(G("main"), <<>>,
        <<BB(L("entry"), shadow \o <<transfer>>),
          BB(L("next"), <<LetCall(L("w"), G("write"), <<IntConst(1)>>), Ret(IntConst(1))>>),
          BB(L("other"), <<LetCall(L("w"), G("write"), <<IntConst(2)>>), Ret(IntConst(2))>>)>>)>>
LabelProgs ==
    {LabelProg(shadow, transfer) :
        shadow \in {<<>>,
                    <<LetBin(L("x"), "add", IntConst(1), IntConst(2))>>,
                    <<LetBin(L("next"), "add", IntConst(1), IntConst(2))>>,
                    <<LetAlloca(L("next"), 1)>>,
                    <<LetCall(L("next"), G("u"), <<>>)>>},
        transfer \in {Jmp(L("next")),
                      Br(IntConst(1), L("next"), L("other")),
                      Br(IntConst(0), L("other"), L("next"))}}

\* fn @inner(#a, #b, #c) -> i32 { %entry: let %d = sub #a, #b ; ret %d }
\* fn @outer(#a, #b) -> i32 { %entry: let %r = call @inner, args ; ret %r }
\* fn @main() -> i32 { %entry: let %r = call @outer, x, y ; ret %r }
ArgProg(x, y, args) ==
    <<FunDefn(G("inner"), <<P("a"), P("b"), P("c")>>,
        <<BB(L("entry"),
             <<LetBin(L("d"), "sub", Ident(P("a")), Ident(P("b"))),
               Ret(Ident(L("d")))>>)>>),
      FunDefn(G("outer"), <<P("a"), P("b")>>,
        <<BB(L("entry"),
             <<LetCall(L("r"), G("inner"), args),
               Ret(Ident(L("r")))>>)>>),
      FunDefn(G("main"), <<>>,
        <<BB(L("entry"),
             <<LetCall(L("r"), G("outer"), <<IntConst(x), IntConst(y)>>),
               Ret(Ident(L("r")))>>)>>)>>
ArgProgs ==
    {ArgProg(x, y, args) :
        x \in {1, 2}, y \in {1, 2},
        args \in {<<Ident(P("b")), Ident(P("a")), IntConst(7)>>,
                  <<Ident(P("a")), Ident(P("b")), Ident(P("a"))>>,
                  <<Ident(P("b")), Ident(P("a"))>>,
                  <<IntConst(7), Ident(P("b")), Ident(P("a")), IntConst(0)>>}}

\* fn @u() -> () { %entry: ret () }
\* fn @main() -> i32 {
\*   %entry: let %p = alloca i32, 1 ; let %s = store 5, %p
\*           let %i = add 1, 2 ; let %c = lt 1, 2 ; let %un = call @u
\*           access ; ret 0 }
NonPtrProg(access) ==
    <<FunDefn(G("u"), <<>>, <<BB(L("entry"), <<Ret(UnitConst)>>)>>),
      FunDefn(G("main"), <<>>,
        <<BB(L("entry"),
             <<LetAlloca(L("p"), 1),
               LetStore(L("s"), IntConst(5), L("p")),
               LetBin(L("i"), "add", IntConst(1), IntConst(2)),
               LetBin(L("c"), "lt", IntConst(1), IntConst(2)),
               LetCall(L("un"), G("u"), <<>>),
               access,
               Ret(IntConst(0))>>)>>)>>
NonPtrNames == {L("p"), L("i"), L("c"), L("un"), L("entry"), G("u")}
NonPtrProgs ==
    {NonPtrProg(access) :
        access \in {LetLoad(L("x"), name) : name \in NonPtrNames}
                   \cup {LetStore(L("x"), IntConst(9), name) : name \in NonPtrNames}}

Programs ==
    RetProgs \cup BinProgs \cup GepProgs \cup GlobalProgs \cup MemProgs
    \cup DerefProgs \cup FactorialProgs \cup NestedProgs \cup {ExternProg}
    \cup LookupProgs \cup BlockProgs \cup CallProgs \cup AllocProgs
    \cup RegionProgs \cup DupProgs \cup PickProgs
    \cup LabelProgs \cup ArgProgs \cup NonPtrProgs

-----------------------------------------------------------------------------
(* The interpreter *)

\* the parser of single identifiers is not in use
NoScan == [text |-> <<>>, pos |-> 0, at |-> "off", name |-> <<>>]

\* Environment.__init__, before the parser has reduced any declaration
InitEnv ==
    /\ loaded = 0
    /\ global_env = EmptyDict
    /\ frames = <<>>
    /\ stack = Zeros(InitialCapacity)
    /\ capacity = InitialCapacity
    /\ size = 0
    /\ ctl = <<>>
    /\ retval = NoRet
    /\ out = <<>>
    /\ status = "load"
    /\ err = ""
    /\ exitcode = 0

Init ==
    /\ \/ prog \in Programs /\ inp = <<>>
       \/ prog = ReadProg /\ inp \in {<<>>, <<7>>}
    /\ InitEnv
    /\ scan = NoScan

Next ==
    \/ LoadGlobalDecl
    \/ LoadFunDefn
    \/ LoadFunDecl
    \/ StartMain
    \/ ExecBin
    \/ ExecAlloca
    \/ ExecLoad
    \/ ExecStore
    \/ ExecGep
    \/ ExecWrite
    \/ ExecRead
    \/ ExecCall
    \/ ExecBr
    \/ ExecJmp
    \/ ExecRet
    \/ Return

Spec == Init /\ [][Next]_vars

-----------------------------------------------------------------------------
(* The parser on one identifier, as Lark(accipit_grammar, start="ident")   *)
(* runs it.  The text is a sequence of characters.  name is a rule of two  *)
(* one-character terminals, /[a-zA-Z.-_]/ and /[a-zA-Z0-9.-_]/; in a       *)
(* character class x-y is the range of the code points from x to y.        *)

\* code points of the characters that occur in the texts and in the classes
Ord ==
    [c \in {"$", "#", "%", "-", ".", "/", "0", "7", "9", "@", "A", "Z", "_", "a", "z"}
       |-> CASE c = "$" -> 36 [] c = "#" -> 35 [] c = "%" -> 37 [] c = "-" -> 45
             [] c = "." -> 46 [] c = "/" -> 47 [] c = "0" -> 48 [] c = "7" -> 55
             [] c = "9" -> 57 [] c = "@" -> 64 [] c = "A" -> 65 [] c = "Z" -> 90
             [] c = "_" -> 95 [] c = "a" -> 97 [] OTHER -> 122]
\* c matches the range lo-hi of a character class
InRange(c, lo, hi) == Ord[lo] <= Ord[c] /\ Ord[c] <= Ord[hi]
\* /[a-zA-Z.-_]/
NameFirst(c) == InRange(c, "a", "z") \/ InRange(c, "A", "Z") \/ InRange(c, ".", "_")
\* /[a-zA-Z0-9.-_]/
NameRest(c) ==
    \/ InRange(c, "a", "z") \/ InRange(c, "A", "Z") \/ InRange(c, "0", "9")
    \/ InRange(c, ".", "_")
\* a character of common.INT
IsDigit(c) == InRange(c, "0", "9")
\* "@", "#", "%" of global_ident, param_ident, local_ident
Prefixes == {"@", "#", "%"}

\* the parser's position: the whole text, the number of characters consumed,
\* the rule it is in, and the name of the Ident built so far
Scanning(text) == [text |-> text, pos |-> 0, at |-> "prefix", name |-> <<>>]
AtEnd == scan.pos = Len(scan.text)
Ahead == scan.text[scan.pos + 1]
\* the next character is consumed into the name and the parser moves to rule at
Consume(at) ==
    /\ scan' = [scan EXCEPT !.pos = @ + 1, !.at = at, !.name = Append(@, Ahead)]
    /\ UNCHANGED <<prog, loaded, global_env, frames, stack, capacity, size, ctl,
                   retval, out, inp, status, err, exitcode>>

\* global_ident, param_ident, local_ident: the prefix
ScanPrefix ==
    /\ scan.at = "prefix"
    /\ ~AtEnd
    /\ Ahead \in Prefixes
    /\ Consume("body")
\* INT is tried before the one-character terminals, being the longer
\* pattern, and takes every digit that follows
ScanInt ==
    /\ scan.at \in {"body", "int"}
    /\ ~AtEnd
    /\ IsDigit(Ahead)
    /\ Consume("int")
\* the first character of name
ScanNameFirst ==
    /\ scan.at = "body"
    /\ ~AtEnd
    /\ ~IsDigit(Ahead)
    /\ NameFirst(Ahead)
    /\ Consume("name")
\* a further character of name
ScanNameRest ==
    /\ scan.at = "name"
    /\ ~AtEnd
    /\ NameRest(Ahead)
    /\ Consume("name")
\* the end of the text where the rule may end: Ident(prefix + body)
ScanAccept ==
    /\ scan.at \in {"name", "int"}
    /\ AtEnd
    /\ scan' = [scan EXCEPT !.at = "accepted"]
    /\ UNCHANGED <<prog, loaded, global_env, frames, stack, capacity, size, ctl,
                   retval, out, inp, status, err, exitcode>>
\* no terminal the parser can take matches: UnexpectedInput
ScanReject ==
    /\ \/ scan.at \in {"prefix", "body"} /\ AtEnd
       \/ scan.at = "prefix" /\ ~AtEnd /\ Ahead \notin Prefixes
       \/ scan.at = "body" /\ ~AtEnd /\ ~IsDigit(Ahead) /\ ~NameFirst(Ahead)
       \/ scan.at = "name" /\ ~AtEnd /\ ~NameRest(Ahead)
       \/ scan.at = "int" /\ ~AtEnd /\ ~IsDigit(Ahead)
    /\ scan' = [scan EXCEPT !.at = "rejected", !.name = <<>>]
    /\ UNCHANGED <<prog, loaded, global_env, frames, stack, capacity, size, ctl,
                   retval, out, inp, status, err, exitcode>>

\* the characters the texts are made of
Alphabet == {"@", "%", "a", "Z", "7", ".", "_", "-", "/", "$"}
Texts == UNION {[1..n -> Alphabet] : n \in 0..MaxLen}

InitIdent ==
    /\ prog = <<>>
    /\ inp = <<>>
    /\ InitEnv
    /\ scan \in {Scanning(text) : text \in Texts}
NextIdent ==
    \/ ScanPrefix
    \/ ScanInt
    \/ ScanNameFirst
    \/ ScanNameRest
    \/ ScanAccept
    \/ ScanReject
IdentSpec == InitIdent /\ [][NextIdent]_vars

-----------------------------------------------------------------------------
(* Vocabulary of the properties *)

\* the frame of the function being evaluated
TopFrame == frames[Len(frames)]
\* the bindings of the block being evaluated that have completed
Completed ==
    IF status = "run" /\ ctl # <<>>
    THEN {k \in 1..Len(BlockOf(Top).bindings) : k < Top.pc}
    ELSE {}
Item(k) == BlockOf(Top).bindings[k]
\* the node whose evaluation raised, in a fatal state of the run phase
Failed == Cur

\* n wrapped into the signed word of WordBits bits
Wrap(n) == PyMod(n - MinInt, Pow2(WordBits)) + MinInt
InWord(n) == MinInt <= n /\ n <= MaxInt
IsWord(x) == x.t = "int" /\ InWord(x.v)

Abs(n) == IF n < 0 THEN 0 - n ELSE n
\* quotient truncated toward zero, and the remainder that goes with it
TruncQuot(a, b) ==
    IF (a < 0) = (b < 0) THEN Abs(a) \div Abs(b) ELSE 0 - (Abs(a) \div Abs(b))
TruncRem(a, b) == a - b * TruncQuot(a, b)

-----------------------------------------------------------------------------
(* C1.  When @main runs to ret, the process exit code is the integer it    *)
(* returned, and 0 when it returned ().                                    *)
C1_ExitCodeIsMainResult ==
    status = "exited" =>
        /\ retval.t = "int" => exitcode = retval.v
        /\ retval.t = "unit" => exitcode = 0

(* C2.  add, sub and mul of two words yield the mathematical result        *)
(* wrapped modulo 2^WordBits into the signed word; no value bound by such  *)
(* an op lies outside the word.                                            *)
C2_ArithWraps ==
    \A k \in Completed :
        LET node == Item(k)
            a == EvalValue(node.v1)
            b == EvalValue(node.v2)
            exact == CASE node.binop = "add" -> a.v + b.v
                       [] node.binop = "sub" -> a.v - b.v
                       [] OTHER -> a.v * b.v
        IN  (node.k = "bin" /\ node.binop \in {"add", "sub", "mul"}
             /\ IsWord(a) /\ IsWord(b))
            => /\ node.dst \in DOMAIN TopFrame
               /\ TopFrame[node.dst] = IntV(Wrap(exact))
               /\ IsWord(TopFrame[node.dst])

(* C3.  For a non-zero divisor, div is the quotient truncated toward zero  *)
(* and rem the matching remainder (sign of the dividend).                  *)
C3_DivTruncates ==
    \A k \in Completed :
        LET node == Item(k)
            a == EvalValue(node.v1)
            b == EvalValue(node.v2)
        IN  (node.k = "bin" /\ node.binop \in {"div", "rem"}
             /\ IsWord(a) /\ IsWord(b) /\ b.v # 0)
            => /\ node.dst \in DOMAIN TopFrame
               /\ TopFrame[node.dst] =
                    IntV(IF node.binop = "div" THEN TruncQuot(a.v, b.v)
                         ELSE TruncRem(a.v, b.v))

\* the node is a div or a rem whose divisor evaluates to zero
DivByZero(node) ==
    /\ node.k = "bin"
    /\ node.binop \in {"div", "rem"}
    /\ IsNum(EvalValue(node.v1))
    /\ IsNum(EvalValue(node.v2))
    /\ EvalValue(node.v2).v = 0

(* C4.  Evaluating div a, 0 or rem a, 0 is fatal: the binding never        *)
(* completes, the run ends with a non-zero exit code, the binding's name   *)
(* is not bound, and no further step of the program is taken.              *)
C4_DivByZeroFatal ==
    /\ \A k \in Completed : ~DivByZero(Item(k))
    /\ (Running /\ DivByZero(Cur)) => ENABLED ExecBin
    /\ (status = "fatal" /\ ctl # <<>> /\ DivByZero(Failed)) =>
           /\ err = "ZeroDivisionError"
           /\ exitcode # 0
           /\ Failed.dst \notin DOMAIN TopFrame
           /\ ~ENABLED Next

\* a division by zero was evaluated in @main and ended the run
C4_Witness ==
    /\ status = "fatal"
    /\ err = "ZeroDivisionError"
    /\ ctl # <<>>
    /\ Failed.binop = "rem"
    /\ Failed.v1 = IntConst(7)
    /\ Failed.dst \notin DOMAIN TopFrame
    /\ out = <<>>

\* the row-major flat offset ((i1 * d2 + i2) * d3 + ...) * dn + in
RECURSIVE FlatOffset(_, _, _)
FlatOffset(offs, k, acc) ==
    IF k > Len(offs) THEN acc
    ELSE FlatOffset(offs, k + 1,
                    (IF k = 1 THEN 0 ELSE acc * offs[k][2].n)
                    + EvalValue(offs[k][1]).v)
KnownDims(offs) == \A k \in 1..Len(offs) : offs[k][2].k = "int"
IntIndices(offs) == \A k \in 1..Len(offs) : EvalValue(offs[k][1]).t = "int"

(* C5.  GEP flat-offset law: with known dimensions, offset T, p, [i1 < d1], *)
(* ..., [in < dn] yields the pointer at p.addr plus the row-major flat     *)
(* offset, whatever the address of p.                                      *)
C5_GepFlatOffset ==
    \A k \in Completed :
        LET node == Item(k)
            p == EnvGet(node.name)
        IN  (node.k = "gep" /\ p.t = "ptr" /\ KnownDims(node.offs)
             /\ IntIndices(node.offs))
            => /\ node.dst \in DOMAIN TopFrame
               /\ TopFrame[node.dst] = Ptr(p.v + FlatOffset(node.offs, 1, 0))

\* claims over one family: the holes of the program being interpreted
MainEntry == prog[Len(prog)].bbs[1]

(* C6.  For a global @a : region i32, k = [v0, ..., v(k-1)], declared      *)
(* anywhere among the globals, load (offset i32, @a, [i < k]) yields v_i   *)
(* for 0 <= i < k.                                                         *)
C6_GlobalElementLoad ==
    prog \in GlobalProgs =>
        LET k == prog[2].n
            i == MainEntry.bindings[1].offs[1][1].n
        IN  i < k =>
              /\ status # "fatal"
              /\ 2 \in Completed =>
                    TopFrame[L("v")] = EvalValue(prog[2].values[i + 1])

(* C7.  After let %p = alloca i32, n and store v, %p, load %p yields v,    *)
(* for every n and v and after any globals and allocas, also when size     *)
(* equals capacity.                                                        *)
C7_StoreLoadRoundTrip ==
    prog \in MemProgs =>
        /\ status # "fatal"
        /\ 4 \in Completed =>
              TopFrame[L("l")] = EvalValue(MainEntry.bindings[3].v1)

\* the step of the GEP rule: a + i for the dimension none, a * d + i for a
\* known dimension d
StepRule(a, i, dim) == IF dim.k = "none" THEN a + i ELSE a * dim.n + i
RECURSIVE ApplyRule(_, _, _)
ApplyRule(a, offs, k) ==
    IF k > Len(offs) THEN a
    ELSE ApplyRule(StepRule(a, EvalValue(offs[k][1]).v, offs[k][2]), offs, k + 1)

LiveCalls == Cardinality({i \in 1..Len(ctl) : ctl[i].mode = "fun"})

(* C9.  Frame stack discipline: every invocation of a user function pushes *)
(* exactly one frame and pops it on return, so the depth of the frame      *)
(* stack is the number of invocations that have not returned (after a call *)
(* returns it is what it was before the call), and when @main has returned *)
(* the frame stack is empty.                                               *)
C9_FrameDiscipline ==
    /\ status = "run" => Len(frames) = LiveCalls
    /\ status = "exited" => frames = <<>> /\ ctl = <<>>

\* the recursive calls of factorial(2) have all returned to @main
C9_Witness ==
    /\ prog = FactorialProg(2)
    /\ status = "run"
    /\ Len(ctl) = 1
    /\ Len(frames) = 1
    /\ L("r") \in DOMAIN TopFrame
    /\ TopFrame[L("r")] = IntV(2)
    /\ size = 3

\* the address is no cell of the store: negative, or not below its length
OutOfRange(p) == p.t = "ptr" /\ (p.v < 0 \/ p.v >= Len(stack))

(* C10.  A load or store through a Ptr whose address is negative or not    *)
(* below the length of the cell store is fatal: it never completes, so it  *)
(* reads or writes no cell and yields no value.                            *)
C10_OutOfRangeDerefFatal ==
    /\ \A k \in Completed :
          Item(k).k \in {"load", "store"} => ~OutOfRange(EnvGet(Item(k).name))
    /\ (Running /\ Cur.k \in {"load", "store"} /\ OutOfRange(EnvGet(Cur.name)))
          => ENABLED (ExecLoad \/ ExecStore)

-----------------------------------------------------------------------------
\* the value node is an identifier that the table lookup consults does not bind
Unbound(v) ==
    /\ v.k = "ident"
    /\ IF StartsWithAt(v.id) THEN v.id \notin DOMAIN global_env
       ELSE v.id \notin DOMAIN TopFrame
\* the block being evaluated has produced its value
BlockDone == status = "run" /\ ctl # <<>> /\ retval # NoRet

(* C11.  Evaluating an identifier that is bound neither in the global      *)
(* table (names in @) nor in the top frame (other names) fails: no @write  *)
(* of such an identifier completes and no ret of one produces a value, so  *)
(* ret %undefined in @main does not exit normally.                         *)
C11_UnboundLookupFails ==
    /\ \A k \in Completed :
          (Item(k).k = "call" /\ Item(k).name = G("write")
           /\ Item(k).args # <<>> /\ k = Top.pc - 1)
          => ~Unbound(Item(k).args[1])
    /\ (BlockDone /\ Cur.k = "ret") => ~Unbound(Cur.v1)
    /\ (prog \in LookupProgs /\ status = "run"
        /\ Unbound(MainEntry.terminator.v1))
          => 2 \notin Completed

(* C12.  A block yields a value only through a terminator: whenever a      *)
(* block activation has produced its value, the last instruction of the    *)
(* block is a br, a jmp or a ret; a block that ends in a let or has no     *)
(* instruction never returns a value.                                      *)
C12_BlockEndsInTerminator ==
    BlockDone => BlockOf(Top).terminator.k \in {"br", "jmp", "ret"}

\* the node calls a name that is neither a built-in nor a function definition
UnknownCall(node) ==
    /\ node.k = "call"
    /\ node.name \notin {G("write"), G("read")}
    /\ GetGlobal(node.name).t # "fundefn"

(* C13.  A call of a name that is not a built-in and is not bound to a     *)
(* function definition (unbound, a region, an extern declaration) is       *)
(* fatal: it never completes, the run ends with a non-zero exit code, the  *)
(* binding's name is not bound and no further step is taken.               *)
C13_UnknownCallFatal ==
    /\ \A k \in Completed : ~UnknownCall(Item(k))
    /\ (Running /\ UnknownCall(Cur)) => ENABLED ExecCall
    /\ (status = "fatal" /\ ctl # <<>> /\ UnknownCall(Failed)) =>
           /\ err \in {"SemanticError", "AttributeError"}
           /\ exitcode # 0
           /\ Failed.dst \notin DOMAIN TopFrame
           /\ out = <<>>
           /\ ~ENABLED Next

\* the call of an extern declaration ended the run
C13_Witness ==
    /\ status = "fatal"
    /\ ctl # <<>>
    /\ UnknownCall(Failed)
    /\ GetGlobal(Failed.name).t = "fundecl"
    /\ err = "AttributeError"
    /\ exitcode = 1
    /\ prog \in CallProgs

-----------------------------------------------------------------------------
\* the completed bindings of the current block that are allocas
Allocas == {k \in Completed : Item(k).k = "alloca"}
\* the pointer the k-th binding's alloca returned
AllocPtr(k) == TopFrame[Item(k).dst]
\* the loaded declarations of regions whose name no other loaded declaration
\* bears
Regions ==
    {d \in 1..loaded :
        /\ prog[d].k = "global"
        /\ \A e \in 1..loaded : prog[e].name = prog[d].name => e = d}

(* C14.  The cell store grows monotonically: size never drops below the    *)
(* end of a region or of an allocation made earlier, every allocation      *)
(* begins at or after the end of every earlier one, and so no two          *)
(* allocations share a cell.                                               *)
C14_StoreGrowsMonotonically ==
    /\ \A d \in Regions :
          /\ global_env[prog[d].name].v + prog[d].n <= size
          /\ \A k \in Allocas :
                global_env[prog[d].name].v + prog[d].n <= AllocPtr(k).v
    /\ \A k \in Allocas :
          /\ AllocPtr(k).t = "ptr"
          /\ AllocPtr(k).v + Item(k).n <= size
          /\ \A j \in Allocas : j < k => AllocPtr(j).v + Item(j).n <= AllocPtr(k).v

(* C15.  At every moment of the run the cell store has exactly capacity    *)
(* cells and size does not exceed capacity, and every region declared with *)
(* size s is bound to a Ptr with addr + s within the cell store.           *)
C15_RegionsWithinStore ==
    /\ Len(stack) = capacity
    /\ size <= capacity
    /\ \A d \in Regions :
          /\ global_env[prog[d].name].t = "ptr"
          /\ global_env[prog[d].name].v + prog[d].n <= Len(stack)

\* the declaration about to be constructed bears a name the global table has
Redeclares ==
    /\ Loading
    /\ NextDecl.name \in DOMAIN global_env
    /\ ~(NextDecl.k = "global" /\ NextDecl.values # <<>>
         /\ Len(NextDecl.values) # NextDecl.n)

(* C16.  Binding a name that the global table already has, whatever the    *)
(* sorts of the two declarations, raises SemanticError and leaves the      *)
(* global table as it was.                                                 *)
C16_DuplicateGlobalRejected ==
    [][Redeclares =>
          /\ status' = "fatal"
          /\ err' = "SemanticError"
          /\ exitcode' # 0
          /\ global_env' = global_env
          /\ loaded' = loaded]_vars

\* a function definition was declared over a region of the same name, which
\* is still bound
C16_Witness ==
    /\ status = "fatal"
    /\ err = "SemanticError"
    /\ loaded = 2
    /\ Len(prog) = 4
    /\ prog[3].k = "fundefn"
    /\ prog[3].name = G("d")
    /\ global_env[G("d")] = Ptr(0)
    /\ global_env[G("o")] = Ptr(1)
    /\ DOMAIN global_env = {G("d"), G("o")}

\* the region about to be declared has initializers, but not as many as cells
CountMismatch ==
    /\ Loading
    /\ NextDecl.k = "global"
    /\ NextDecl.values # <<>>
    /\ Len(NextDecl.values) # NextDecl.n

(* C17.  Declaring a region whose initializer list is present and differs  *)
(* in length from the declared size is a semantic error at load time: it   *)
(* is raised before a cell is reserved or written and before the name is   *)
(* bound.                                                                  *)
C17_InitCountChecked ==
    [][CountMismatch =>
          /\ status' = "fatal"
          /\ err' = "SemanticError"
          /\ exitcode' # 0
          /\ UNCHANGED <<stack, capacity, size, global_env, loaded>>]_vars

\* the second region was rejected for its initializer count after the first
\* was loaded
C17_Witness ==
    /\ status = "fatal"
    /\ err = "SemanticError"
    /\ loaded = 1
    /\ CountMismatch = FALSE
    /\ prog[2].k = "global"
    /\ prog[2].values = InitValues(2)
    /\ prog[2].n = 1
    /\ prog[2].name \notin DOMAIN global_env
    /\ size = 2
    /\ stack[1] = IntV(10)
    /\ stack[3] = IntV(0)

-----------------------------------------------------------------------------
\* the transfer instruction of @pick, and the argument @main calls it with
PickTransfer ==
    IF prog[1].bbs[1].bindings = <<>> THEN prog[1].bbs[1].terminator
    ELSE prog[1].bbs[1].bindings[1]
PickArg == prog[2].bbs[1].bindings[1].args[1].n
\* the label the claim says the transfer enters
PickTarget ==
    IF PickTransfer.k = "jmp" THEN PickTransfer.l1
    ELSE IF PickArg = 0 THEN PickTransfer.l2 ELSE PickTransfer.l1

(* C18.  A br whose condition evaluates to the Int 0 takes the step that   *)
(* jmp to its second label takes, and one whose condition is a non-zero    *)
(* Int the step that jmp to its first label takes: the same block is       *)
(* entered in the same state.  The value the target block returns reaches  *)
(* the caller unchanged: br c, %t, %f in tail position makes the function  *)
(* write and return what jmp to the chosen label makes it write and return.*)
C18_BrIsJmp ==
    /\ [][(Running /\ Cur.k = "br" /\ EvalValue(Cur.v1).t = "int")
            => JmpTo(IF EvalValue(Cur.v1).v = 0 THEN Cur.l2 ELSE Cur.l1)]_vars
    /\ []((prog \in PickProgs /\ status = "exited") =>
            /\ out = <<IntV(IF PickTarget = L("t") THEN 1 ELSE 2)>>
            /\ retval = IF prog[1].bbs[1].bindings # <<>> THEN IntV(5)
                        ELSE IntV(IF PickTarget = L("t") THEN 11 ELSE 12))

\* a br on a negative condition in tail position has run the first target
C18_Witness ==
    /\ prog \in PickProgs
    /\ PickTransfer = Br(Ident(P("c")), L("t"), L("f"))
    /\ PickArg = 0 - 7
    /\ prog[1].bbs[1].bindings = <<>>
    /\ status = "exited"
    /\ out = <<IntV(1)>>
    /\ exitcode = 11

-----------------------------------------------------------------------------
Comparisons == {"eq", "ne", "lt", "le", "gt", "ge"}
\* the signed relation a comparison stands for
Related(binop, a, b) ==
    CASE binop = "eq" -> a = b
      [] binop = "ne" -> a # b
      [] binop = "lt" -> a < b
      [] binop = "le" -> a <= b
      [] binop = "gt" -> a > b
      [] OTHER -> a >= b

(* C19.  A comparison of two Ints binds the Int 1 when the signed relation *)
(* holds and the Int 0 otherwise, and @write of the bound value writes     *)
(* that Int.                                                               *)
C19_ComparisonYieldsInt ==
    \A k \in Completed :
        LET node == Item(k)
            a == EvalValue(node.v1)
            b == EvalValue(node.v2)
            bit == IntV(IF Related(node.binop, a.v, b.v) THEN 1 ELSE 0)
        IN  (node.k = "bin" /\ node.binop \in Comparisons
             /\ a.t = "int" /\ b.t = "int")
            => /\ node.dst \in DOMAIN TopFrame
               /\ TopFrame[node.dst] = bit
               /\ (prog \in BinProgs /\ 2 \in Completed) => out = <<bit>>

-----------------------------------------------------------------------------
\* [A-Za-z], [0-9] and the three marks, as the specification lists them
IsLetter(c) == InRange(c, "a", "z") \/ InRange(c, "A", "Z")
BodyFirst(c) == IsLetter(c) \/ c \in {".", "_", "-"}
BodyRest(c) == BodyFirst(c) \/ IsDigit(c)
\* the text is a prefix followed by [A-Za-z._-][A-Za-z0-9._-]* or by a
\* decimal integer
IsIdentifier(text) ==
    /\ Len(text) >= 2
    /\ text[1] \in Prefixes
    /\ \/ BodyFirst(text[2]) /\ \A i \in 3..Len(text) : BodyRest(text[i])
       \/ \A i \in 2..Len(text) : IsDigit(text[i])

(* C20.  The parser accepts a text as an identifier exactly when it is a   *)
(* prefix @, # or % followed by a body that matches                        *)
(* [A-Za-z._-][A-Za-z0-9._-]* or is a decimal integer, and the name of the *)
(* identifier is the whole text, prefix included.                          *)
C20_IdentifierSyntax ==
    /\ scan.at = "accepted" => IsIdentifier(scan.text) /\ scan.name = scan.text
    /\ scan.at = "rejected" => ~IsIdentifier(scan.text)

-----------------------------------------------------------------------------
\* the blocks of declaration d that carry the label l
BlocksLabelled(d, l) ==
    {b \in 1..Len(prog[d].bbs) : ~prog[d].bbs[b].bare /\ prog[d].bbs[b].label = l}
\* the label the transfer instruction node names, given its condition
LabelTaken(node) ==
    IF node.k = "jmp" THEN node.l1
    ELSE IF Truthy(EvalValue(node.v1)) THEN node.l1 ELSE node.l2

(* C21.  Every br or jmp executed in an invocation of a function enters    *)
(* the block of that function that carries the named label, whatever      *)
(* bindings the invocation has made before, a let of the label's name      *)
(* included: after the step the evaluator stands at the first instruction  *)
(* of that block.                                                          *)
C21_TransferEntersLabelledBlock ==
    [][(Running /\ Cur.k \in {"br", "jmp"}
        /\ BlocksLabelled(Top.d, LabelTaken(Cur)) # {})
       => /\ status' = "run"
          /\ retval' = NoRet
          /\ ctl' # <<>>
          /\ ctl'[Len(ctl')].d = Top.d
          /\ ctl'[Len(ctl')].b \in BlocksLabelled(Top.d, LabelTaken(Cur))
          /\ ctl'[Len(ctl')].pc = 1]_vars

\* the step is a call of a user function: Fncall.eval reaches fun.eval(args)
\* with fun a FunDefn
CallsFunDefn ==
    /\ Running
    /\ Cur.k = "call"
    /\ Cur.name \notin {G("write"), G("read")}
    /\ GetGlobal(Cur.name).t = "fundefn"
\* the parameter list of the function the call names
CalleeParams == prog[GetGlobal(Cur.name).v].params

(* C22.  On a call of a user function the arguments are evaluated in the   *)
(* caller's frame, before the callee's frame is pushed, and in the new     *)
(* frame the k-th parameter is bound to the value of the k-th argument,    *)
(* for every parameter that has an argument; the frames below the new one  *)
(* are the frames before the call.                                         *)
C22_ArgumentsBoundPositionally ==
    [][CallsFunDefn
       => /\ Len(frames') = Len(frames) + 1
          /\ \A i \in 1..Len(frames) : frames'[i] = frames[i]
          /\ \A k \in 1..Min(Len(CalleeParams), Len(Cur.args)) :
                /\ CalleeParams[k] \in DOMAIN frames'[Len(frames')]
                /\ frames'[Len(frames')][CalleeParams[k]] = EvalValue(Cur.args[k])]_vars

\* @outer(1, 2) has called @inner with #b, #a, 7: in @inner's frame #a is 2
\* and #b is 1, in @outer's frame below it #a is 1 and #b is 2
C22_Witness ==
    /\ prog = ArgProg(1, 2, <<Ident(P("b")), Ident(P("a")), IntConst(7)>>)
    /\ status = "run"
    /\ Len(frames) = 3
    /\ Top.pc = 1
    /\ TopFrame[P("a")] = IntV(2)
    /\ TopFrame[P("b")] = IntV(1)
    /\ TopFrame[P("c")] = IntV(7)
    /\ frames[2][P("a")] = IntV(1)
    /\ frames[2][P("b")] = IntV(2)

\* the ValueBinding of the call that the returning invocation was made by
ReturnsTo ==
    LET caller == ctl[Len(ctl) - 1]
    IN  prog[caller.d].bbs[caller.b].bindings[caller.pc]
\* a FunDefn.eval invocation other than @main's hands its value back
Returning ==
    /\ status = "run"
    /\ retval # NoRet
    /\ Len(ctl) > 1
    /\ Top.mode = "fun"
\* frame f2 has every binding of frame f1, except perhaps that of name
SameBut(f1, f2, name) ==
    \A x \in DOMAIN f1 \ {name} : x \in DOMAIN f2 /\ f2[x] = f1[x]

(* C23.  A call leaves the caller's frame unchanged.  The step of the call *)
(* leaves every frame there was as it is; no step changes a frame below    *)
(* the top one; and when the callee returns, the caller's frame holds      *)
(* every binding it held before, with its value, the name the call's       *)
(* result is bound to excepted.  So in the recursive factorial every live  *)
(* invocation keeps its own #n: the invocation at depth i holds n - i.     *)
C23_CallerFrameUnchanged ==
    /\ [][/\ CallsFunDefn => \A i \in 1..Len(frames) :
                                i <= Len(frames') /\ frames'[i] = frames[i]
          /\ \A i \in 1..(Len(frames) - 1) :
                i < Len(frames') => frames'[i] = frames[i]
          /\ Returning => /\ Len(frames') = Len(frames) - 1
                          /\ SameBut(frames[Len(frames) - 1],
                                     frames'[Len(frames')], ReturnsTo.dst)]_vars
    /\ [](prog \in FactorialProgs /\ status = "run"
          => \A i \in 2..Len(frames) :
                frames[i][P("n")] = IntV(prog[2].bbs[1].bindings[1].args[1].n - (i - 2)))

\* factorial(2) has got the result of its recursive call factorial(1), which
\* bound #n, %9 and %cmp in a frame of its own: #n is still 2, %9 still 1
C23_Witness ==
    /\ prog = FactorialProg(2)
    /\ status = "run"
    /\ Len(frames) = 2
    /\ L("res") \in DOMAIN TopFrame
    /\ TopFrame[L("res")] = IntV(1)
    /\ TopFrame[P("n")] = IntV(2)
    /\ TopFrame[L("9")] = IntV(1)
    /\ TopFrame[L("cmp")] = BoolV(FALSE)

\* the node is a load or a store through a name that is bound to a value
\* other than a Ptr
ThroughNonPtr(node) ==
    /\ node.k \in {"load", "store"}
    /\ EnvGet(node.name).t \in {"int", "bool", "unit", "fundefn", "fundecl", "block"}

(* C24.  A load or a store through a name whose bound value is not a Ptr   *)
(* (an int, unit, a function or a basic block) is fatal: the run ends with *)
(* a non-zero exit status, the binding is not made, and no cell of the     *)
(* cell store is modified.                                                 *)
C24_NonPtrAccessFatal ==
    [][(Running /\ ThroughNonPtr(Cur))
       => /\ status' = "fatal"
          /\ err' = "SemanticError"
          /\ exitcode' # 0
          /\ stack' = stack
          /\ size' = size
          /\ capacity' = capacity
          /\ frames' = frames
          /\ out' = out]_vars

\* the store through %i, which is bound to the int 3, has ended the run;
\* cell 0 still holds the 5 stored before and cell 3 is untouched
C24_Witness ==
    /\ prog = NonPtrProg(LetStore(L("x"), IntConst(9), L("i")))
    /\ status = "fatal"
    /\ err = "SemanticError"
    /\ Failed.k = "store"
    /\ TopFrame[Failed.name] = IntV(3)
    /\ stack[1] = IntV(5)
    /\ stack[4] = IntV(0)
    /\ L("x") \notin DOMAIN TopFrame


=============================================================================
